---------------------------- MODULE Spec2Model ----------------------------
(***************************************************************************)
(* A model of the SHL assessment recommender: the catalog loader           *)
(* (utils/data_loader.py), the matching engine NLPProcessor                *)
(* (utils/nlp_processor.py) and the two HTTP handlers of app.py.           *)
(*                                                                         *)
(* Text is modelled by TLA+ strings; Python's str operations are written   *)
(* out with Len, SubSeq and \o.  Scores are exact rationals (see Score).   *)
(***************************************************************************)
EXTENDS Integers, Sequences, FiniteSets, TLC

-----------------------------------------------------------------------------
(* Python str operations                                                     *)

None == "None"

Max(a, b) == IF a >= b THEN a ELSE b

CharAt(s, i) == SubSeq(s, i, i)

\* `sub in text`
Contains(text, sub) ==
  \E i \in 0..(Len(text) - Len(sub)) : SubSeq(text, i + 1, i + Len(sub)) = sub

UpperCase == "ABCDEFGHIJKLMNOPQRSTUVWXYZ"
LowerCase == "abcdefghijklmnopqrstuvwxyz"
Digits == "0123456789"

IsIn(c, chars) == \E i \in 1..Len(chars) : CharAt(chars, i) = c

LowerChar(c) ==
  IF IsIn(c, UpperCase)
    THEN CharAt(LowerCase, CHOOSE i \in 1..Len(UpperCase) : CharAt(UpperCase, i) = c)
    ELSE c

RECURSIVE Concat(_, _, _)
\* F(lo) \o ... \o F(hi), halving the interval
Concat(F(_), lo, hi) ==
  IF lo > hi THEN ""
  ELSE IF lo = hi THEN F(lo)
  ELSE LET mid == (lo + hi) \div 2
       IN Concat(F, lo, mid) \o Concat(F, mid + 1, hi)

\* str.lower()
Lower(s) ==
  LET F(i) == LowerChar(CharAt(s, i)) IN Concat(F, 1, Len(s))

\* the class \s of the re module
IsSpace(c) == c \in {" ", "\t", "\n", "\r"}

\* the class \w of the re module
IsWord(c) == IsIn(c, LowerCase) \/ IsIn(c, UpperCase) \/ IsIn(c, Digits) \/ c = "_"

\* the text with its special characters left in
KeepSpecial(text) == text

\* re.sub(r'[^\w\s]', ' ', text)
ReplaceSpecial(text) ==
  LET F(i) == IF IsWord(CharAt(text, i)) \/ IsSpace(CharAt(text, i))
                THEN CharAt(text, i) ELSE " "
  IN Concat(F, 1, Len(text))

\* re.sub(r'\s+', ' ', text).strip(): a whitespace character is kept, as one
\* space, when it ends a word that is not the last one
NormalizeWhitespace(text) ==
  LET F(i) ==
        IF ~IsSpace(CharAt(text, i)) THEN CharAt(text, i)
        ELSE IF /\ i > 1
                /\ ~IsSpace(CharAt(text, i - 1))
                /\ \E j \in (i + 1)..Len(text) : ~IsSpace(CharAt(text, j))
               THEN " " ELSE ""
  IN Concat(F, 1, Len(text))

\* the set of the words of str.split(): the maximal runs of characters that
\* are no whitespace
Words(s) ==
  LET starts == { i \in 1..Len(s) :
                    ~IsSpace(CharAt(s, i)) /\ (i = 1 \/ IsSpace(CharAt(s, i - 1))) }
      EndOf(i) == CHOOSE j \in i..Len(s) :
                    /\ j = Len(s) \/ IsSpace(CharAt(s, j + 1))
                    /\ \A k \in i..j : ~IsSpace(CharAt(s, k))
  IN { SubSeq(s, i, EndOf(i)) : i \in starts }

RECURSIVE ReplaceFrom(_, _, _, _)
\* str.replace(old, new) for a non-empty old, on the text from position
\* `from` on: the leftmost occurrence, then the rest behind it
ReplaceFrom(text, old, new, from) ==
  LET starts == { i \in from..(Len(text) - Len(old) + 1) :
                    SubSeq(text, i, i + Len(old) - 1) = old }
  IN IF starts = {} THEN SubSeq(text, from, Len(text))
     ELSE LET m == CHOOSE i \in starts : \A j \in starts : i <= j
          IN SubSeq(text, from, m - 1) \o new
               \o ReplaceFrom(text, old, new, m + Len(old))

Replace(text, old, new) == ReplaceFrom(text, old, new, 1)

-----------------------------------------------------------------------------
(* NLPProcessor._preprocess_text                                             *)

phrases_to_join ==
  << "front end", "back end", "full stack", "data science", "machine learning",
     "artificial intelligence", "business intelligence", "project management",
     "product management", "user experience", "user interface", "quality assurance",
     "business analysis", "database administrator", "system administrator",
     "human resources", "sales representative", "account manager", "customer service" >>

RECURSIVE JoinPhrases(_, _)
\* the loop over phrases_to_join, from phrase number k on
JoinPhrases(text, k) ==
  IF k > Len(phrases_to_join) THEN text
  ELSE LET phrase == phrases_to_join[k]
       IN JoinPhrases(IF Contains(text, phrase)
                        THEN Replace(text, phrase, Replace(phrase, " ", "_"))
                        ELSE text,
                      k + 1)

\* the phrases joined before the special characters and the whitespace are
\* dealt with
JoinBeforeNormalize(text) ==
  IF text = "" \/ text = None
    THEN ""
    ELSE NormalizeWhitespace(ReplaceSpecial(JoinPhrases(Lower(text), 1)))

_preprocess_text(text) ==
  IF text = "" \/ text = None
    THEN ""
    ELSE JoinPhrases(NormalizeWhitespace(ReplaceSpecial(Lower(text))), 1)

-----------------------------------------------------------------------------
(* Scores.  The code adds floats that are multiples of 0.01 and, for the     *)
(* category boost, of 0.05 / len(keywords).  A score is the exact rational   *)
(* w / 100 + f / (100 * FracDen) with 0 <= f < FracDen, so that no sum or    *)
(* comparison is rounded.                                                    *)

RECURSIVE Gcd(_, _)
Gcd(a, b) == IF b = 0 THEN a ELSE Gcd(b, a % b)

Lcm(a, b) == (a \div Gcd(a, b)) * b

skill_categories ==
  <<
    [category |-> "programming", keywords |-> <<
        "java", "python", "javascript", "c++", "c#", ".net", "ruby", "php", "go", "rust",
        "scala", "perl", "assembly", "swift", "kotlin", "dart", "typescript", "html",
        "css", "sql", "nosql", "r", "matlab", "programming", "coding", "developer",
        "software", "web", "mobile", "frontend", "backend", "fullstack", "algorithm",
        "data structure" >>],
    [category |-> "frameworks", keywords |-> <<
        "spring", "react", "angular", "vue", "django", "flask", "laravel", "express",
        "node", "rails", "hibernate", "bootstrap", "jquery", ".net", "aspnet", "symfony",
        "ember", "gatsby", "nextjs", "nuxtjs", "flutter" >>],
    [category |-> "data", keywords |-> <<
        "database", "sql", "mysql", "postgresql", "oracle", "mongodb", "nosql", "redis",
        "cassandra", "elasticsearch", "data", "analytics", "big data", "hadoop", "spark",
        "etl", "tableau", "power bi", "data lake", "data warehouse", "bi",
        "business intelligence" >>],
    [category |-> "cloud", keywords |-> <<
        "aws", "azure", "gcp", "cloud", "docker", "kubernetes", "serverless", "lambda",
        "ec2", "s3", "microservices", "devops", "cicd", "jenkins", "terraform", "iaas",
        "paas", "saas" >>],
    [category |-> "ai_ml", keywords |-> <<
        "machine learning", "artificial intelligence", "ai", "ml", "deep learning",
        "neural network", "nlp", "natural language processing", "computer vision",
        "data science", "tensorflow", "pytorch", "scikit-learn", "keras", "regression",
        "classification", "clustering" >>],
    [category |-> "sales", keywords |-> <<
        "sales", "marketing", "customer", "account", "business development", "client",
        "revenue", "lead", "pipeline", "crm", "salesforce", "hubspot", "closing",
        "negotiation", "pitch", "presentation", "relationship", "solution selling", "b2b",
        "b2c", "retail" >>],
    [category |-> "management", keywords |-> <<
        "manager", "management", "lead", "leadership", "supervisor", "director",
        "executive", "ceo", "cto", "coo", "cfo", "vp", "head", "chief", "project manager",
        "program manager", "scrum master", "agile", "team lead" >>],
    [category |-> "finance", keywords |-> <<
        "accounting", "finance", "financial", "investment", "banking", "trading", "audit",
        "tax", "budget", "forecast", "analysis", "capital", "risk", "compliance",
        "regulation", "portfolio", "bank", "banker", "loan", "credit", "debit",
        "transaction", "deposit", "withdrawal", "interest", "mortgage", "payment" >>],
    [category |-> "hr", keywords |-> <<
        "hr", "human resources", "talent", "recruitment", "recruiting", "hiring",
        "onboarding", "training", "development", "performance", "compensation", "benefits",
        "employee", "workforce", "culture", "diversity", "inclusion" >>],
    [category |-> "design", keywords |-> <<
        "design", "ux", "ui", "user experience", "user interface", "graphic", "visual",
        "creative", "art", "illustrator", "photoshop", "sketch", "figma", "adobe",
        "wireframe", "prototype", "accessibility" >>],
    [category |-> "administrative", keywords |-> <<
        "administrative", "admin", "assistant", "clerk", "receptionist", "secretary",
        "office", "document", "filing", "paperwork", "correspondence", "data entry",
        "typing", "word processing", "spreadsheet", "scheduling", "calendar", "meeting",
        "minute taking", "phone", "email", "customer service", "support", "clerical",
        "organization" >>]
  >>

key_exact_matches ==
  <<
    [role |-> "java developer", match_terms |-> << "java", "core java" >>],
    [role |-> "python developer", match_terms |-> << "python", "coding assessment for python" >>],
    [role |-> "data scientist", match_terms |-> << "data science", "machine learning", "analytics" >>],
    [role |-> "sales representative", match_terms |-> << "sales aptitude", "sales" >>],
    [role |-> "project manager", match_terms |-> << "project management", "leadership" >>],
    [role |-> "business analyst", match_terms |-> << "business analyst", "requirements analysis" >>],
    [role |-> "ux designer", match_terms |-> << "ux design", "user experience" >>],
    [role |-> "database administrator", match_terms |-> << "database", "sql" >>],
    [role |-> "front end developer", match_terms |-> << "front-end", "html", "css", "javascript" >>],
    [role |-> "mobile developer", match_terms |-> << "mobile", "ios", "android", "react native", "flutter" >>],
    [role |-> "bank assistant", match_terms |-> << "administrative", "customer service", "bank", "excel", "numerical", "verbal",
        "clerical" >>],
    [role |-> "administrative assistant", match_terms |-> << "administrative", "office", "clerical", "customer service", "excel", "verbal" >>],
    [role |-> "bank clerk", match_terms |-> << "bank", "administrative", "numerical", "clerical", "excel", "data entry" >>],
    [role |-> "icici bank", match_terms |-> << "bank", "financial", "administrative", "customer service", "excel", "numerical" >>]
  >>

RECURSIVE LcmOfLengths(_)
LcmOfLengths(k) ==
  IF k > Len(skill_categories) THEN 1
  ELSE Lcm(Len(skill_categories[k].keywords), LcmOfLengths(k + 1))

\* the common denominator of count / len(skill_categories[category])
FracDen == LcmOfLengths(1)

Hundredths(n) == [w |-> n, f |-> 0]

Zero == Hundredths(0)

\* a + b
ScoreAdd(a, b) ==
  [w |-> a.w + b.w + ((a.f + b.f) \div FracDen), f |-> (a.f + b.f) % FracDen]

\* a < b
ScoreLess(a, b) == a.w < b.w \/ (a.w = b.w /\ a.f < b.f)

ScoreLeq(a, b) == a = b \/ ScoreLess(a, b)

\* n / den hundredths, for den dividing FracDen
Fraction(n, den) == [w |-> n \div den, f |-> (n % den) * (FracDen \div den)]

-----------------------------------------------------------------------------
(* The boost and penalty rules of get_recommendations                        *)

\* how many members of the list terms occur in text
MatchCount(terms, text) ==
  Cardinality({ k \in 1..Len(terms) : Contains(text, terms[k]) })

\* job_categories: for category number k, its category_match_count, where 0
\* stands for a category that is not in the dict
job_categories(job_description_lower) ==
  [ k \in 1..Len(skill_categories) |->
      MatchCount(skill_categories[k].keywords, job_description_lower) ]

\* assessment_text
AssessmentText(assessment) ==
  Lower(assessment.name) \o " " \o Lower(assessment.description)
    \o " " \o Lower(assessment.skills)

\* 0.02 for every word of the job description that is in the text, short
\* words too
TermBoostAnyLength(job_description_lower, assessment_text) ==
  LET job_terms == Words(job_description_lower)
      term_matches ==
        Cardinality({ term \in job_terms : Contains(assessment_text, term) })
  IN Hundredths(2 * term_matches)

\* term_matches * 0.02
TermBoost(job_description_lower, assessment_text) ==
  LET job_terms == Words(job_description_lower)
      term_matches ==
        Cardinality({ term \in job_terms : Len(term) > 3 /\ Contains(assessment_text, term) })
  IN Hundredths(2 * term_matches)

RECURSIVE CategoryBoost(_, _, _)
\* the sum, over the categories of job_categories from number k on, of
\* category_match_score * (count / len(skill_categories[category]))
CategoryBoost(categories, assessment_text, k) ==
  IF k > Len(skill_categories) THEN Zero
  ELSE LET keywords == skill_categories[k].keywords
           count == categories[k]
           this == IF count > 0
                     THEN Fraction(5 * MatchCount(keywords, assessment_text) * count,
                                   Len(keywords))
                     ELSE Zero
       IN ScoreAdd(this, CategoryBoost(categories, assessment_text, k + 1))

\* 0.3 for every category of job_categories whose name is in the text
DirectCategoryBoost(categories, assessment_text) ==
  Hundredths(30 * Cardinality({ k \in 1..Len(skill_categories) :
      categories[k] > 0 /\ Contains(assessment_text, Lower(skill_categories[k].category)) }))

\* no boost for the role phrases
NoRoleBoost(job_description_lower, assessment_text, k) == Zero

RECURSIVE RoleBoostPerRole(_, _, _)
\* 0.5 for each role of the query that has a term in the text, however many
\* of its terms are there
RoleBoostPerRole(job_description_lower, assessment_text, k) ==
  IF k > Len(key_exact_matches) THEN Zero
  ELSE LET this == IF /\ Contains(job_description_lower, key_exact_matches[k].role)
                      /\ MatchCount(key_exact_matches[k].match_terms,
                                    assessment_text) > 0
                     THEN Hundredths(50)
                     ELSE Zero
       IN ScoreAdd(this, RoleBoostPerRole(job_description_lower, assessment_text, k + 1))

RECURSIVE RoleBoost(_, _, _)
\* 0.5 for every term of match_terms that is in the text, for every role of
\* key_exact_matches (from number k on) that is in the job description
RoleBoost(job_description_lower, assessment_text, k) ==
  IF k > Len(key_exact_matches) THEN Zero
  ELSE LET this == IF Contains(job_description_lower, key_exact_matches[k].role)
                     THEN Hundredths(50 * MatchCount(key_exact_matches[k].match_terms,
                                                     assessment_text))
                     ELSE Zero
       IN ScoreAdd(this, RoleBoost(job_description_lower, assessment_text, k + 1))

ContainsAny(text, terms) == \E k \in 1..Len(terms) : Contains(text, terms[k])

\* no penalty for any assessment
NoDomainPenalty(job_description_lower, name) == Zero

\* a penalty of 0.5 in the place of 2.0
DomainPenaltyHalf(job_description_lower, name) ==
  IF /\ ContainsAny(job_description_lower,
                    << "bank", "administrative", "admin", "assistant", "clerk" >>)
     /\ ContainsAny(name, << "python", "java", "coding", "programming", "developer" >>)
    THEN Hundredths(-50)
    ELSE Zero

\* - 2.0 for a programming assessment under a banking or administrative query
DomainPenalty(job_description_lower, name) ==
  IF /\ ContainsAny(job_description_lower,
                    << "bank", "administrative", "admin", "assistant", "clerk" >>)
     /\ ContainsAny(name, << "python", "java", "coding", "programming", "developer" >>)
    THEN Hundredths(-200)
    ELSE Zero

\* boost, for one assessment
Boost(job_description, assessment) ==
  LET job_description_lower == Lower(job_description)
      assessment_text == AssessmentText(assessment)
  IN ScoreAdd(TermBoost(job_description_lower, assessment_text),
     ScoreAdd(CategoryBoost(job_categories(job_description_lower), assessment_text, 1),
     ScoreAdd(DirectCategoryBoost(job_categories(job_description_lower), assessment_text),
     ScoreAdd(RoleBoost(job_description_lower, assessment_text, 1),
              DomainPenalty(job_description_lower, Lower(assessment.name))))))
-----------------------------------------------------------------------------
(* The vectorizer.  TfidfVectorizer and cosine_similarity are library code:  *)
(* a fitted vectorizer is modelled by its vocabulary, a TF-IDF vector by the *)
(* set of its terms (its non-zero coordinates, all positive) and the cosine  *)
(* of a query with a record by 0 when the two share no term and by a         *)
(* positive level, fixed for the record when the index is built, when they   *)
(* do.                                                                       *)

\* members of sklearn's English stop word list
ENGLISH_STOP_WORDS ==
  { "a", "about", "above", "after", "again", "all", "also", "am", "an", "and",
    "any", "are", "as", "at", "be", "because", "been", "before", "being",
    "between", "both", "but", "by", "can", "could", "do", "done", "down",
    "during", "each", "either", "for", "from", "further", "get", "give", "go",
    "had", "has", "have", "he", "her", "here", "him", "his", "how", "i", "if",
    "in", "into", "is", "it", "its", "may", "me", "more", "most", "much",
    "must", "my", "no", "nor", "not", "now", "of", "off", "on", "once", "only",
    "or", "other", "our", "out", "over", "own", "same", "she", "should", "so",
    "some", "such", "than", "that", "the", "their", "them", "then", "there",
    "these", "they", "this", "those", "through", "to", "too", "under", "until",
    "up", "very", "was", "we", "were", "what", "when", "where", "which",
    "while", "who", "why", "will", "with", "would", "you", "your" }

\* the terms the vectorizer's analyzer finds in a preprocessed text: the runs
\* of two or more word characters that are no stop words
Tokens(processed_text) ==
  { t \in Words(processed_text) : Len(t) >= 2 /\ t \notin ENGLISH_STOP_WORDS }

\* _generate_sample_assessments(); True and False are written "True" and "False"
SampleAssessments ==
  <<
    [id |-> "SHL-001",
     name |-> "Verbal Reasoning Assessment",
     description |-> "Measures the ability to understand and evaluate written information",
     type |-> "Cognitive",
     duration |-> "25 minutes",
     skills |-> "Critical thinking, language comprehension, analytical reasoning",
     link |-> "https://www.shl.com/assessments/verbal-reasoning/",
     remote_available |-> "True",
     adaptive_testing |-> "False"],
    [id |-> "SHL-002",
     name |-> "Numerical Reasoning Assessment",
     description |-> "Evaluates the ability to interpret numerical data and make logical decisions",
     type |-> "Cognitive",
     duration |-> "35 minutes",
     skills |-> "Numerical ability, data interpretation, problem-solving",
     link |-> "https://www.shl.com/assessments/numerical-reasoning/",
     remote_available |-> "True",
     adaptive_testing |-> "True"],
    [id |-> "SHL-003",
     name |-> "Inductive Reasoning Assessment",
     description |-> "Assesses logical thinking and pattern recognition ability",
     type |-> "Cognitive",
     duration |-> "30 minutes",
     skills |-> "Pattern recognition, logical thinking, problem-solving",
     link |-> "https://www.shl.com/assessments/inductive-reasoning/",
     remote_available |-> "True",
     adaptive_testing |-> "False"],
    [id |-> "SHL-004",
     name |-> "Mechanical Reasoning Assessment",
     description |-> "Measures understanding of mechanical and physical principles",
     type |-> "Technical",
     duration |-> "20 minutes",
     skills |-> "Mechanical aptitude, spatial visualization, applied physics",
     link |-> "https://www.shl.com/assessments/mechanical-reasoning/",
     remote_available |-> "False",
     adaptive_testing |-> "False"],
    [id |-> "SHL-005",
     name |-> "Coding Assessment for Python",
     description |-> "Evaluates programming skills and problem-solving in Python",
     type |-> "Technical",
     duration |-> "60 minutes",
     skills |-> "Python programming, algorithms, data structures",
     link |-> "https://www.shl.com/assessments/coding-python/",
     remote_available |-> "True",
     adaptive_testing |-> "True"],
    [id |-> "SHL-006",
     name |-> "Leadership Competency Assessment",
     description |-> "Evaluates leadership potential and management capabilities",
     type |-> "Behavioral",
     duration |-> "45 minutes",
     skills |-> "Leadership, decision-making, team management",
     link |-> "https://www.shl.com/assessments/leadership-competency/",
     remote_available |-> "True",
     adaptive_testing |-> "False"],
    [id |-> "SHL-007",
     name |-> "Customer Service Assessment",
     description |-> "Assesses aptitude for customer-facing roles and service orientation",
     type |-> "Behavioral",
     duration |-> "30 minutes",
     skills |-> "Communication, empathy, problem resolution",
     link |-> "https://www.shl.com/assessments/customer-service/",
     remote_available |-> "True",
     adaptive_testing |-> "False"],
    [id |-> "SHL-008",
     name |-> "Excel Skills Assessment",
     description |-> "Measures proficiency in Microsoft Excel for data analysis and reporting",
     type |-> "Technical",
     duration |-> "40 minutes",
     skills |-> "Excel, data analysis, formula creation",
     link |-> "https://www.shl.com/assessments/excel-skills/",
     remote_available |-> "True",
     adaptive_testing |-> "True"],
    [id |-> "SHL-009",
     name |-> "Personality Assessment",
     description |-> "Measures work-related personality traits and behavioral tendencies",
     type |-> "Behavioral",
     duration |-> "25 minutes",
     skills |-> "Self-awareness, workplace behavior, interpersonal style",
     link |-> "https://www.shl.com/assessments/personality-profile/",
     remote_available |-> "True",
     adaptive_testing |-> "False"],
    [id |-> "SHL-010",
     name |-> "Situational Judgement Test",
     description |-> "Evaluates decision-making in realistic workplace scenarios",
     type |-> "Behavioral",
     duration |-> "30 minutes",
     skills |-> "Decision-making, workplace judgment, conflict resolution",
     link |-> "https://www.shl.com/assessments/situational-judgement/",
     remote_available |-> "True",
     adaptive_testing |-> "True"]
  >>
-----------------------------------------------------------------------------
(* The bounded inputs                                                        *)

\* the longest catalog a catalog file holds
MaxCatalog == 2

\* the largest top_k of a direct call
MaxTopK == 2

\* records a catalog file is made of
RecordPool ==
  { [id |-> "T-1", name |-> "Java Coding", description |-> "bank software",
     type |-> "Technical", duration |-> "30 minutes", skills |-> "java",
     link |-> "", remote_available |-> "True", adaptive_testing |-> "False"],
    [id |-> "B-1", name |-> "Clerical Test", description |-> "data entry",
     type |-> "Behavioral", duration |-> "20 minutes", skills |-> "excel",
     link |-> "", remote_available |-> "False", adaptive_testing |-> "False"],
    [id |-> "T-2", name |-> "Python Data Analysis", description |-> "",
     type |-> "Technical", duration |-> "40 minutes", skills |-> "python",
     link |-> "", remote_available |-> "True", adaptive_testing |-> "True"] }

\* a record whose texts have no term: one letter is no token
NoTerms ==
  [id |-> "N-1", name |-> "A", description |-> "", type |-> "",
   duration |-> "", skills |-> "", link |-> "", remote_available |-> "False",
   adaptive_testing |-> "False"]

\* the catalogs of at most n records of the pool, none twice
RECURSIVE CatalogsUpTo(_)
CatalogsUpTo(n) ==
  IF n = 0 THEN { << >> }
  ELSE LET shorter == CatalogsUpTo(n - 1)
       IN shorter \cup { Append(c, r) : c \in shorter, r \in RecordPool }

Catalogs == { c \in CatalogsUpTo(MaxCatalog) :
                \A i, j \in 1..Len(c) : i # j => c[i] # c[j] }

\* what data/shl_assessments.json is: no file, a file that cannot be read or
\* is no JSON, a JSON value without a length, or a catalog
CatalogFiles ==
  { [state |-> "missing", content |-> << >>], [state |-> "invalid", content |-> << >>],
    [state |-> "scalar", content |-> << >>] }
    \cup { [state |-> "valid", content |-> c] : c \in Catalogs \cup { << NoTerms >> } }

\* the job descriptions; None is a missing one
JobDescriptions ==
  { "", None, "bank clerk", "Java developer", "python data analysis" }

\* the job descriptions of the ranking scenarios
ScenarioQueries ==
  { "administrative assistant",
    "administrative assistant python developer programming coding algorithms data structures skills",
    "I am hiring for Java developers" }

KnownQueries == JobDescriptions \cup ScenarioQueries

TopKs == (0 - 1)..MaxTopK

TestTypes == { None, "", "Technical" }

Booleans == { "True", "False" }

\* the arguments of a direct call
CallArgs ==
  [ job_description : JobDescriptions, top_k : TopKs, test_type : TestTypes,
    remote_available : Booleans \cup { None }, adaptive_testing : { None, "True" } ]

\* the levels a positive cosine takes, in hundredths
CosineLevels == { 30, 100 }

LowestLevel == CHOOSE l \in CosineLevels : \A m \in CosineLevels : l <= m

\* a record of the SHL catalog, as the test data names it
CoreJava ==
  [id |-> "J-1", name |-> "Core Java (Entry Level) (New)", description |-> "",
   type |-> "Technical", duration |-> "30 minutes", skills |-> "",
   link |-> "https://www.shl.com/solutions/products/productcatalog/view/core-java-entry-level-new/",
   remote_available |-> "True", adaptive_testing |-> "False"]

\* the records of the bounded catalogs
KnownRecords ==
  RecordPool \cup { SampleAssessments[i] : i \in 1..Len(SampleAssessments) }
    \cup { CoreJava, NoTerms }

\* text, in _compute_assessment_vectors
CompositeText(assessment) ==
  assessment.name \o " " \o assessment.name \o " " \o assessment.description \o " "
    \o assessment.skills \o " " \o assessment.skills \o " " \o assessment.type

\* the fields of an assessment that the boost loop reads
TextFields(assessment) ==
  [name |-> assessment.name, description |-> assessment.description,
   skills |-> assessment.skills]

(* The text functions are worked out once for the bounded inputs, and looked *)
(* up by the operations.                                                     *)

\* boost, by job description and assessment
BoostTable ==
  [ job_description \in KnownQueries \ { None } |->
      [ fields \in { TextFields(a) : a \in KnownRecords } |->
          Boost(job_description, fields) ] ]

BoostOf(job_description, assessment) ==
  BoostTable[job_description][TextFields(assessment)]

\* _preprocess_text, by text
PreprocessTable ==
  [ text \in KnownQueries \cup { CompositeText(a) : a \in KnownRecords } |->
      _preprocess_text(text) ]

Preprocessed(text) == PreprocessTable[text]

\* Tokens, by preprocessed text
TokensTable ==
  [ processed_text \in { PreprocessTable[t] : t \in DOMAIN PreprocessTable } |->
      Tokens(processed_text) ]

TokensOf(processed_text) == TokensTable[processed_text]

\* vectorizer.transform([text]): the terms of the text that are in the vocabulary
Transform(vectorizer, processed_text) ==
  TokensOf(processed_text) \cap vectorizer.vocabulary

\* a vectorizer fitted again, on the text it was to transform
VectorizerRefitted(vectorizer, processed_text) ==
  [vocabulary |-> TokensOf(processed_text)]

\* the fitted state of the vectorizer after vectorizer.transform: unchanged
VectorizerAfterTransform(vectorizer, processed_text) == vectorizer

\* one entry of cosine_similarity(job_vector, assessment_vectors)[0]
Cosine(job_vector, vector) ==
  IF job_vector \cap vector.terms = {} THEN Zero ELSE Hundredths(vector.level)

-----------------------------------------------------------------------------
(* NLPProcessor.get_recommendations                                          *)

\* similarities after the boost loop: one (idx, score + boost) per entry of
\* similarity_scores, in catalog order
Similarities(assessments, similarity_scores, job_description) ==
  [ i \in 1..Len(similarity_scores) |->
      [idx |-> i,
       score |-> ScoreAdd(similarity_scores[i], BoostOf(job_description, assessments[i]))] ]

\* an insertion that puts x before the entries of equal score
InsertBeforeEqual(sorted, x) ==
  LET higher == SelectSeq(sorted, LAMBDA e : ScoreLess(x.score, e.score))
      others == SelectSeq(sorted, LAMBDA e : ~ScoreLess(x.score, e.score))
  IN higher \o << x >> \o others

RECURSIVE InsertByScore(_, _)
\* x put into a list that is sorted by score, descending, behind every entry
\* whose score is not lower than its own
InsertByScore(sorted, x) ==
  IF sorted = << >> THEN << x >>
  ELSE IF ScoreLess(Head(sorted).score, x.score)
         THEN << x >> \o sorted
         ELSE << Head(sorted) >> \o InsertByScore(Tail(sorted), x)

\* the list left as the boost loop built it, in catalog order
Unsorted(similarities) == similarities

RECURSIVE SortByScore(_)
\* similarities.sort(key=lambda x: x[1], reverse=True): a stable sort
SortByScore(similarities) ==
  IF similarities = << >> THEN << >>
  ELSE InsertByScore(SortByScore(SubSeq(similarities, 1, Len(similarities) - 1)),
                     similarities[Len(similarities)])

RECURSIVE MaxScore(_)
\* max([score for _, score in similarities]), for a non-empty list
MaxScore(similarities) ==
  IF Len(similarities) = 1 THEN similarities[1].score
  ELSE LET rest == MaxScore(Tail(similarities))
       IN IF ScoreLess(similarities[1].score, rest) THEN rest ELSE similarities[1].score

One == Hundredths(100)

\* a normalized score, the quotient num / den of two scores
ZeroScore == [num |-> Zero, den |-> One]

\* the adjusted score as it is, not divided by max_score
Unnormalized(similarity, max_score) == [num |-> similarity, den |-> One]

\* float(similarity) / max_score if max_score > 0 else 0
Normalized(similarity, max_score) ==
  IF ScoreLess(Zero, max_score) THEN [num |-> similarity, den |-> max_score] ELSE ZeroScore

\* the type test alone, without the tests of remote_available and
\* adaptive_testing
PassesTypeFilter(assessment, args) ==
  ~(args.test_type \notin {None, ""} /\ assessment.type # args.test_type)

\* the three filter tests of the loop: TRUE when the assessment is kept
PassesFilters(assessment, args) ==
  /\ ~(args.test_type \notin {None, ""} /\ assessment.type # args.test_type)
  /\ ~(args.remote_available # None /\ assessment.remote_available # args.remote_available)
  /\ ~(args.adaptive_testing # None /\ assessment.adaptive_testing # args.adaptive_testing)

\* assessment.copy() with the two score keys set
ScoredCopy(assessment, normalized_score) ==
  [similarity_score |-> normalized_score, similarity |-> normalized_score] @@ assessment

\* a catalog whose recommended records are the scored records themselves: the
\* scores written to the catalog's record and not to a copy
AssessmentsScored(assessments, recommendations) ==
  [ i \in 1..Len(assessments) |->
      IF \E k \in 1..Len(recommendations) : recommendations[k].id = assessments[i].id
        THEN LET k == CHOOSE k \in 1..Len(recommendations) :
                        recommendations[k].id = assessments[i].id
             IN recommendations[k]
        ELSE assessments[i] ]

\* self.assessments after a call that returned recommendations: every score
\* was written to a copy, the catalog keeps its records
AssessmentsAfterCall(assessments, recommendations) == assessments

\* a break that comes one record late
EnoughStrict(recommendations, top_k) == Len(recommendations) > top_k

\* len(recommendations) >= top_k: the loop breaks
Enough(recommendations, top_k) == Len(recommendations) >= top_k

RECURSIVE FilterLoop(_, _, _, _, _, _)
\* the loop over the sorted similarities, from entry k on
FilterLoop(similarities, k, recommendations, assessments, max_score, args) ==
  IF k > Len(similarities) THEN recommendations
  ELSE LET assessment == assessments[similarities[k].idx]
       IN IF ~PassesFilters(assessment, args)
            THEN FilterLoop(similarities, k + 1, recommendations, assessments, max_score, args)
            ELSE LET appended ==
                       Append(recommendations,
                              ScoredCopy(assessment,
                                         Normalized(similarities[k].score, max_score)))
                 IN IF Enough(appended, args.top_k)
                      THEN appended
                      ELSE FilterLoop(similarities, k + 1, appended, assessments,
                                      max_score, args)

\* the list of the loop as it is, without the fallback
WithoutFallback(recommendations, assessments) == recommendations

\* the list returned once the loop is over, with the fallback
WithFallback(recommendations, assessments) ==
  IF recommendations = << >> /\ assessments # << >>
    THEN << ScoredCopy(assessments[1], ZeroScore) >>
    ELSE recommendations

\* the sort, max_score, the filter loop and the fallback, on the similarities
\* of the boost loop
Rank(similarities, assessments, args) ==
  LET sorted == SortByScore(similarities)
      max_score == IF sorted # << >> THEN MaxScore(sorted) ELSE One
  IN WithFallback(FilterLoop(sorted, 1, << >>, assessments, max_score, args),
                  assessments)

\* cosine_similarity(job_vector, self.assessment_vectors)[0]
SimilarityScores(job_vector, assessment_vectors) ==
  [ i \in 1..Len(assessment_vectors) |-> Cosine(job_vector, assessment_vectors[i]) ]

\* the recommendations of a call that does not raise
Recommendations(assessments, vectorizer, assessment_vectors, args) ==
  LET processed_job_description == Preprocessed(args.job_description)
      job_vector == Transform(vectorizer, processed_job_description)
      similarity_scores == SimilarityScores(job_vector, assessment_vectors)
  IN Rank(Similarities(assessments, similarity_scores, args.job_description),
          assessments, args)

\* job_description.lower() raises AttributeError for a job description that
\* is no string
Raises(args) == args.job_description = None

\* what a call of get_recommendations gives its caller
GetRecommendations(assessments, vectorizer, assessment_vectors, args) ==
  IF Raises(args)
    THEN [kind |-> "raised", recommendations |-> << >>]
    ELSE [kind |-> "returned",
          recommendations |-> Recommendations(assessments, vectorizer, assessment_vectors, args)]
-----------------------------------------------------------------------------
(* The state                                                                 *)

VARIABLES
  pc,                     \* "start", "loaded" or "serving": how far app.py has run
  catalog_file,           \* data/shl_assessments.json
  assessments,            \* the catalog: app.py's global, the engine's self.assessments
  nlp_processor,          \* None, or "NLPProcessor" once the engine is built
  vectorizer,             \* self.vectorizer, by its vocabulary
  assessment_texts,       \* self.assessment_texts
  processed_assessments,  \* self.processed_assessments
  assessment_vectors,     \* self.assessment_vectors
  constructed,            \* the engine as __init__ left it
  request,                \* the call or HTTP request being served
  outcome,                \* what it gave its caller
  first_call,             \* the first direct call and its outcome (SpecRepeat)
  threads                 \* the calls running concurrently (SpecConc)

vars ==
  << pc, catalog_file, assessments, nlp_processor, vectorizer, assessment_texts,
     processed_assessments, assessment_vectors, constructed, request, outcome,
     first_call, threads >>

\* the engine's fields
Engine ==
  [assessments |-> assessments, vectorizer |-> vectorizer,
   assessment_texts |-> assessment_texts,
   processed_assessments |-> processed_assessments,
   assessment_vectors |-> assessment_vectors]

NoRequest == [op |-> "none"]

NoOutcome == [kind |-> "none", status |-> 0, scored |-> FALSE, recommendations |-> << >>]

NoFirstCall == [made |-> FALSE, again |-> FALSE, between |-> FALSE]

\* the concurrent callers
Threads == { "t1", "t2" }

Idle == [pc |-> "idle"]

Init ==
  /\ pc = "start"
  /\ catalog_file \in CatalogFiles
  /\ assessments = << >>
  /\ nlp_processor = None
  /\ vectorizer = [vocabulary |-> {}]
  /\ assessment_texts = << >>
  /\ processed_assessments = << >>
  /\ assessment_vectors = << >>
  /\ constructed = [built |-> FALSE]
  /\ request = NoRequest
  /\ outcome = NoOutcome
  /\ first_call = NoFirstCall
  /\ threads = [t \in Threads |-> Idle]

-----------------------------------------------------------------------------
(* Start-up: load_assessments(), then NLPProcessor(assessments)              *)

\* load_assessments()
\* json.load(f) of a file that exists and parses: a list, or a value without
\* a length (a number, true, false or null)
json_load(file) ==
  IF file.state = "scalar"
  THEN [type |-> "int", value |-> << >>]
  ELSE [type |-> "list", value |-> file.content]

\* load_assessments without its fallbacks: the parsed value whatever it is
load_unguarded(file) == json_load(file).value

\* the file is missing, or open or json.load raises, or len(assessments) of
\* the log line raises: the sample set; otherwise the parsed list
load_assessments(file) ==
  IF file.state = "missing" THEN SampleAssessments
  ELSE IF file.state = "invalid" THEN SampleAssessments
  ELSE IF json_load(file).type # "list" THEN SampleAssessments
  ELSE json_load(file).value

LoadAssessments ==
  /\ pc = "start"
  /\ assessments' = load_assessments(catalog_file)
  /\ pc' = "loaded"
  /\ UNCHANGED << catalog_file, nlp_processor, vectorizer, assessment_texts,
                  processed_assessments, assessment_vectors, constructed, request,
                  outcome, first_call, threads >>

\* the terms of the bounded job descriptions
QueryTerms ==
  UNION { TokensOf(Preprocessed(q)) : q \in KnownQueries \ { None } }

\* the levels fit_transform may give the vectors of the processed texts; the
\* level of a vector that shares no term with any bounded job description is
\* never read, and is fixed
Levels(processed) ==
  { lv \in [1..Len(processed) -> CosineLevels] :
      \A i \in 1..Len(processed) :
        TokensOf(processed[i]) \cap QueryTerms = {} => lv[i] = LowestLevel }

\* the vocabulary fit_transform learns from the processed texts
Vocabulary(processed) == UNION { TokensOf(processed[i]) : i \in 1..Len(processed) }

\* a fit that finds terms
FitNeverRaises(processed) == FALSE

\* a fit that raises for texts without a term, and not for no texts
FitRaisesOnTextsOnly(processed) == processed # << >> /\ Vocabulary(processed) = {}

\* fit_transform raises ValueError, "empty vocabulary", for texts without a
\* term and for no texts
FitRaises(processed) == Vocabulary(processed) = {}

\* self.processed_assessments: the tags are appended to the local
\* processed_text after it was put in the list, and never reach the list
ProcessedAssessments(catalog) ==
  [ i \in 1..Len(catalog) |-> Preprocessed(CompositeText(catalog[i])) ]

\* NLPProcessor(assessments), when fit_transform finds a vocabulary
InitProcessor ==
  /\ pc = "loaded"
  /\ LET processed == ProcessedAssessments(assessments)
     IN /\ ~FitRaises(processed)
        /\ \E lv \in Levels(processed) :
             /\ assessment_texts' =
                  [ i \in 1..Len(assessments) |-> CompositeText(assessments[i]) ]
             /\ processed_assessments' = processed
             /\ vectorizer' = [vocabulary |-> Vocabulary(processed)]
             /\ assessment_vectors' =
                  [ i \in 1..Len(assessments) |->
                      [terms |-> TokensOf(processed[i]), level |-> lv[i]] ]
             /\ constructed' =
                  [built |-> TRUE,
                   engine |-> [assessments |-> assessments,
                               vectorizer |-> vectorizer',
                               assessment_texts |-> assessment_texts',
                               processed_assessments |-> processed_assessments',
                               assessment_vectors |-> assessment_vectors']]
  /\ nlp_processor' = "NLPProcessor"
  /\ pc' = "serving"
  /\ UNCHANGED << catalog_file, assessments, request, outcome, first_call, threads >>

\* NLPProcessor(assessments), when fit_transform raises "empty vocabulary":
\* app.py logs the error and sets nlp_processor = None
InitProcessorFails ==
  /\ pc = "loaded"
  /\ FitRaises(ProcessedAssessments(assessments))
  /\ pc' = "serving"
  /\ UNCHANGED << catalog_file, assessments, nlp_processor, vectorizer,
                  assessment_texts, processed_assessments, assessment_vectors,
                  constructed, request, outcome, first_call, threads >>

-----------------------------------------------------------------------------
(* Serving: direct calls and the two HTTP handlers                           *)

\* top_k=10, the default of get_recommendations
DefaultTopK == 10

\* top_k=10, in assignment_recommend
AssignmentTopK == 10

\* what a call of get_recommendations with this result leaves in the engine;
\* the call has run vectorizer.transform whether it returns or raises
EngineAfterCall(args, result) ==
  /\ vectorizer' =
       VectorizerAfterTransform(vectorizer, Preprocessed(args.job_description))
  /\ assessments' = AssessmentsAfterCall(assessments, result.recommendations)
  /\ UNCHANGED << nlp_processor, assessment_texts, processed_assessments,
                  assessment_vectors, constructed >>

\* nlp_processor.get_recommendations(...), called directly
CallGetRecommendations ==
  /\ pc = "serving"
  /\ request = NoRequest
  /\ nlp_processor # None
  /\ \E args \in CallArgs :
       /\ request' = [op |-> "get_recommendations", args |-> args]
       /\ LET result ==
                GetRecommendations(assessments, vectorizer, assessment_vectors, args)
          IN /\ outcome' = [kind |-> result.kind, status |-> 0, scored |-> TRUE,
                            recommendations |-> result.recommendations]
             /\ EngineAfterCall(args, result)
  /\ UNCHANGED << pc, catalog_file, first_call, threads >>

\* a key that the JSON payload does not have
Absent == "Absent"

\* the payloads of POST /api/recommend; json is FALSE for a body that
\* request.get_json() does not parse
RecommendPayloads ==
  { [json |-> FALSE] }
    \cup [ json : { TRUE }, job_description : JobDescriptions \cup { Absent },
           test_type : TestTypes, remote_available : Booleans \cup { None },
           adaptive_testing : { None, "True" } ]

\* data.get(key, default)
Get(data, key, default) == IF data[key] = Absent THEN default ELSE data[key]

\* a test that lets every request through
NeverUninitialized(processor) == FALSE

\* `not nlp_processor`: the engine was not built
NotInitialized(processor) == processor = None

\* a test that finds None alone, and lets the empty string pass
NotNone(value) == value = None

\* `not value`, for None and strings
Not(value) == value \in { None, "" }

HttpOutcome(status, scored, recommendations) ==
  [kind |-> "http", status |-> status, scored |-> scored,
   recommendations |-> recommendations]

\* POST /api/recommend
recommend ==
  /\ pc = "serving"
  /\ request = NoRequest
  /\ \E data \in RecommendPayloads :
       /\ request' = [op |-> "recommend", data |-> data]
       /\ IF NotInitialized(nlp_processor)
            THEN /\ outcome' = HttpOutcome(500, FALSE, << >>)
                 /\ UNCHANGED << assessments, nlp_processor, vectorizer, assessment_texts,
                                 processed_assessments, assessment_vectors, constructed >>
          ELSE IF ~data.json
            THEN /\ outcome' = HttpOutcome(500, FALSE, << >>)
                 /\ UNCHANGED << assessments, nlp_processor, vectorizer, assessment_texts,
                                 processed_assessments, assessment_vectors, constructed >>
          ELSE IF Not(Get(data, "job_description", ""))
            THEN /\ outcome' = HttpOutcome(400, FALSE, << >>)
                 /\ UNCHANGED << assessments, nlp_processor, vectorizer, assessment_texts,
                                 processed_assessments, assessment_vectors, constructed >>
          ELSE LET args == [job_description |-> Get(data, "job_description", ""),
                            top_k |-> DefaultTopK,
                            test_type |-> data.test_type,
                            remote_available |-> data.remote_available,
                            adaptive_testing |-> data.adaptive_testing]
                   result ==
                     GetRecommendations(assessments, vectorizer, assessment_vectors, args)
               IN /\ outcome' =
                       IF result.kind = "raised"
                         THEN HttpOutcome(500, TRUE, << >>)
                         ELSE HttpOutcome(200, TRUE, result.recommendations)
                  /\ EngineAfterCall(args, result)
  /\ UNCHANGED << pc, catalog_file, first_call, threads >>

\* the payloads of POST /v1/recommend
AssignmentPayloads ==
  { [json |-> FALSE] }
    \cup [ json : { TRUE }, job_description : JobDescriptions \cup { Absent },
           query : JobDescriptions \cup { Absent } ]

\* one entry of the response of /v1/recommend; the records have no
\* duration_minutes key
FormatAssessment(rec) ==
  [name |-> rec.name, type |-> rec.type, description |-> rec.description,
   match_score |-> rec.similarity, skills |-> rec.skills,
   remote_available |-> rec.remote_available, duration_minutes |-> 0]

\* POST /v1/recommend
assignment_recommend ==
  /\ pc = "serving"
  /\ request = NoRequest
  /\ \E data \in AssignmentPayloads :
       /\ request' = [op |-> "assignment_recommend", data |-> data]
       /\ IF NotInitialized(nlp_processor)
            THEN /\ outcome' = HttpOutcome(503, FALSE, << >>)
                 /\ UNCHANGED << assessments, nlp_processor, vectorizer, assessment_texts,
                                 processed_assessments, assessment_vectors, constructed >>
          ELSE IF ~data.json
            THEN /\ outcome' = HttpOutcome(500, FALSE, << >>)
                 /\ UNCHANGED << assessments, nlp_processor, vectorizer, assessment_texts,
                                 processed_assessments, assessment_vectors, constructed >>
          ELSE LET query == Get(data, "job_description", Get(data, "query", ""))
                   args == [job_description |-> query, top_k |-> AssignmentTopK,
                            test_type |-> None, remote_available |-> None,
                            adaptive_testing |-> None]
                   result ==
                     GetRecommendations(assessments, vectorizer, assessment_vectors, args)
                   recommendations == result.recommendations
               IN IF Not(query)
                    THEN /\ outcome' = HttpOutcome(400, FALSE, << >>)
                         /\ UNCHANGED << assessments, nlp_processor, vectorizer,
                                         assessment_texts, processed_assessments,
                                         assessment_vectors, constructed >>
                    ELSE /\ outcome' =
                              IF result.kind = "raised"
                                THEN HttpOutcome(500, TRUE, << >>)
                              ELSE IF recommendations = << >>
                                THEN HttpOutcome(404, TRUE, << >>)
                              ELSE HttpOutcome(200, TRUE,
                                     [ k \in 1..Len(recommendations) |->
                                         FormatAssessment(recommendations[k]) ])
                         /\ EngineAfterCall(args, result)
  /\ UNCHANGED << pc, catalog_file, first_call, threads >>

\* the caller has taken the outcome; the next request can come
Return ==
  /\ request # NoRequest
  /\ request' = NoRequest
  /\ outcome' = NoOutcome
  /\ UNCHANGED << pc, catalog_file, assessments, nlp_processor, vectorizer,
                  assessment_texts, processed_assessments, assessment_vectors,
                  constructed, first_call, threads >>

Next ==
  \/ LoadAssessments
  \/ InitProcessor
  \/ InitProcessorFails
  \/ CallGetRecommendations
  \/ recommend
  \/ assignment_recommend
  \/ Return

Spec == Init /\ [][Next]_vars

-----------------------------------------------------------------------------
(* One call made twice on the same engine, with other calls in between       *)

\* the arguments of the repeated calls
RepeatArgs ==
  [ job_description : { "", "bank clerk", "Java developer" }, top_k : { MaxTopK },
    test_type : { None, "Technical" }, remote_available : { None },
    adaptive_testing : { None } ]

\* the first call
FirstCall ==
  /\ pc = "serving"
  /\ nlp_processor # None
  /\ ~first_call.made
  /\ \E args \in RepeatArgs :
       LET result == GetRecommendations(assessments, vectorizer, assessment_vectors, args)
       IN /\ first_call' = [made |-> TRUE, again |-> FALSE, between |-> FALSE,
                            args |-> args, result |-> result]
          /\ EngineAfterCall(args, result)
  /\ UNCHANGED << pc, catalog_file, request, outcome, threads >>

\* a call with other arguments, after the first call and before its repeat
OtherCall ==
  /\ first_call.made
  /\ ~first_call.again
  /\ \E args \in RepeatArgs \ { first_call.args } :
       LET result == GetRecommendations(assessments, vectorizer, assessment_vectors, args)
       IN /\ first_call' = [first_call EXCEPT !.between = TRUE]
          /\ EngineAfterCall(args, result)
  /\ UNCHANGED << pc, catalog_file, request, outcome, threads >>

\* the first call, made again
SecondCall ==
  /\ first_call.made
  /\ ~first_call.again
  /\ LET result == GetRecommendations(assessments, vectorizer, assessment_vectors,
                                      first_call.args)
     IN /\ first_call' = [again |-> TRUE, second |-> result] @@ first_call
        /\ EngineAfterCall(first_call.args, result)
  /\ UNCHANGED << pc, catalog_file, request, outcome, threads >>

NextRepeat ==
  \/ LoadAssessments
  \/ InitProcessor
  \/ InitProcessorFails
  \/ FirstCall
  \/ OtherCall
  \/ SecondCall

SpecRepeat == Init /\ [][NextRepeat]_vars

-----------------------------------------------------------------------------
(* Calls of get_recommendations running concurrently on the one engine: each *)
(* thread reads the engine's fields one step at a time                       *)

\* the arguments of the concurrent calls
ConcArgs ==
  [ job_description : { None, "bank clerk", "Java developer" }, top_k : { MaxTopK },
    test_type : { None, "Technical" }, remote_available : { None },
    adaptive_testing : { None } ]

Running(step, args, job_vector, similarity_scores, similarities) ==
  [pc |-> step, args |-> args, job_vector |-> job_vector,
   similarity_scores |-> similarity_scores, similarities |-> similarities]

Done(args, result) == [pc |-> "done", args |-> args, result |-> result]

\* a thread enters get_recommendations
StartCall(t) ==
  /\ pc = "serving"
  /\ nlp_processor # None
  /\ threads[t].pc = "idle"
  /\ \E args \in ConcArgs :
       threads' = [threads EXCEPT ![t] = Running("transform", args, {}, << >>, << >>)]
  /\ UNCHANGED << pc, catalog_file, assessments, nlp_processor, vectorizer,
                  assessment_texts, processed_assessments, assessment_vectors,
                  constructed, request, outcome, first_call >>

\* job_vector = self.vectorizer.transform([processed_job_description])
TransformStep(t) ==
  /\ threads[t].pc = "transform"
  /\ LET args == threads[t].args
         processed_job_description == Preprocessed(args.job_description)
     IN /\ threads' =
             [threads EXCEPT ![t] =
                Running("cosine", args, Transform(vectorizer, processed_job_description),
                        << >>, << >>)]
        /\ vectorizer' = VectorizerAfterTransform(vectorizer, processed_job_description)
  /\ UNCHANGED << pc, catalog_file, assessments, nlp_processor, assessment_texts,
                  processed_assessments, assessment_vectors, constructed, request,
                  outcome, first_call >>

\* cosine_similarity(job_vector, self.assessment_vectors), then
\* job_description.lower(), which raises for None
CosineStep(t) ==
  /\ threads[t].pc = "cosine"
  /\ LET args == threads[t].args
     IN threads' =
          [threads EXCEPT ![t] =
             IF Raises(args)
               THEN Done(args, [kind |-> "raised", recommendations |-> << >>])
               ELSE Running("boost", args, threads[t].job_vector,
                            SimilarityScores(threads[t].job_vector, assessment_vectors),
                            << >>)]
  /\ UNCHANGED << pc, catalog_file, assessments, nlp_processor, vectorizer,
                  assessment_texts, processed_assessments, assessment_vectors,
                  constructed, request, outcome, first_call >>

\* the boost loop over self.assessments
BoostStep(t) ==
  /\ threads[t].pc = "boost"
  /\ LET args == threads[t].args
     IN threads' =
          [threads EXCEPT ![t] =
             Running("rank", args, threads[t].job_vector, threads[t].similarity_scores,
                     Similarities(assessments, threads[t].similarity_scores,
                                  args.job_description))]
  /\ UNCHANGED << pc, catalog_file, assessments, nlp_processor, vectorizer,
                  assessment_texts, processed_assessments, assessment_vectors,
                  constructed, request, outcome, first_call >>

\* the sort, the filter loop over self.assessments, the fallback and the return
RankStep(t) ==
  /\ threads[t].pc = "rank"
  /\ LET args == threads[t].args
         recommendations == Rank(threads[t].similarities, assessments, args)
     IN /\ threads' =
             [threads EXCEPT ![t] =
                Done(args, [kind |-> "returned", recommendations |-> recommendations])]
        /\ assessments' = AssessmentsAfterCall(assessments, recommendations)
  /\ UNCHANGED << pc, catalog_file, nlp_processor, vectorizer, assessment_texts,
                  processed_assessments, assessment_vectors, constructed, request,
                  outcome, first_call >>

\* the caller has taken the result; the thread can call again
FinishCall(t) ==
  /\ threads[t].pc = "done"
  /\ threads' = [threads EXCEPT ![t] = Idle]
  /\ UNCHANGED << pc, catalog_file, assessments, nlp_processor, vectorizer,
                  assessment_texts, processed_assessments, assessment_vectors,
                  constructed, request, outcome, first_call >>

NextConc ==
  \/ LoadAssessments
  \/ InitProcessor
  \/ InitProcessorFails
  \/ \E t \in Threads : StartCall(t)
  \/ \E t \in Threads : TransformStep(t)
  \/ \E t \in Threads : CosineStep(t)
  \/ \E t \in Threads : BoostStep(t)
  \/ \E t \in Threads : RankStep(t)
  \/ \E t \in Threads : FinishCall(t)

SpecConc == Init /\ [][NextConc]_vars

-----------------------------------------------------------------------------
(* The properties of get_recommendations and of the handlers, stated on the  *)
(* request being served and on what it gave its caller                       *)

\* get_recommendations has returned its list: to a direct caller, or to
\* /api/recommend, which passes the list on as it is
Served ==
  \/ request.op = "get_recommendations" /\ outcome.kind = "returned"
  \/ request.op = "recommend" /\ outcome.status = 200

\* the arguments of the call of get_recommendations that was served
ServedArgs ==
  IF request.op = "get_recommendations" THEN request.args
  ELSE [job_description |-> IF request.data.job_description = Absent
                              THEN ""
                              ELSE request.data.job_description,
        top_k |-> DefaultTopK,
        test_type |-> request.data.test_type,
        remote_available |-> request.data.remote_available,
        adaptive_testing |-> request.data.adaptive_testing]

ScoreKeys == { "similarity_score", "similarity" }

\* a returned record without its two score keys
Stripped(rec) == [ k \in DOMAIN rec \ ScoreKeys |-> rec[k] ]

\* the catalog position of the record a returned record is a copy of
CatalogIndex(rec) == CHOOSE i \in 1..Len(assessments) : assessments[i] = Stripped(rec)

\* the adjusted score of the catalog record at position i: cosine plus boost
AdjustedScore(i, job_description) ==
  ScoreAdd(Cosine(Transform(vectorizer, Preprocessed(job_description)),
                  assessment_vectors[i]),
           BoostOf(job_description, assessments[i]))

\* no filter constraint is active
NoFilter(args) ==
  /\ args.test_type \in { None, "" }
  /\ args.remote_available = None
  /\ args.adaptive_testing = None

\* the record satisfies every active filter constraint
Satisfies(rec, args) ==
  /\ args.test_type \notin { None, "" } => rec.type = args.test_type
  /\ args.remote_available # None => rec.remote_available = args.remote_available
  /\ args.adaptive_testing # None => rec.adaptive_testing = args.adaptive_testing

\* a normalized score lies in [0,1]
InUnitInterval(score) ==
  /\ ScoreLess(Zero, score.den)
  /\ ScoreLeq(Zero, score.num)
  /\ ScoreLeq(score.num, score.den)

\* the record is the fallback: a copy of the catalog's first record with
\* score 0 under both keys
IsFallback(rec) ==
  /\ DOMAIN rec = DOMAIN assessments[1] \cup ScoreKeys
  /\ Stripped(rec) = assessments[1]
  /\ rec.similarity_score = ZeroScore
  /\ rec.similarity = ZeroScore

\* C1, as stated: for a non-empty catalog, get_recommendations returns at
\* least 1 and at most top_k records, for every integer top_k
C1_BetweenOneAndTopK ==
  Served /\ assessments # << >> =>
    /\ 1 <= Len(outcome.recommendations)
    /\ Len(outcome.recommendations) <= ServedArgs.top_k

\* C1, amended: for a non-empty catalog, get_recommendations returns at least
\* 1 and at most max(top_k, 1) records; with top_k below 1 it returns one
C1_BetweenOneAndMaxTopKOne ==
  Served /\ assessments # << >> =>
    /\ 1 <= Len(outcome.recommendations)
    /\ Len(outcome.recommendations) <= Max(ServedArgs.top_k, 1)

\* C1, witness: a call with top_k of 2 or more on a longer catalog returned
\* exactly top_k records
C1_Truncated ==
  /\ Served
  /\ ServedArgs.top_k >= 2
  /\ Len(assessments) > ServedArgs.top_k
  /\ Len(outcome.recommendations) = ServedArgs.top_k

\* C2, as stated: both scores of every record get_recommendations returns lie
\* in the closed interval [0,1]
C2_ScoresInUnitInterval ==
  Served =>
    \A k \in 1..Len(outcome.recommendations) :
      /\ InUnitInterval(outcome.recommendations[k].similarity_score)
      /\ InUnitInterval(outcome.recommendations[k].similarity)

\* C3, as stated: every record get_recommendations returns satisfies every
\* active filter constraint
C3_AllSatisfyFilters ==
  Served =>
    \A k \in 1..Len(outcome.recommendations) :
      Satisfies(outcome.recommendations[k], ServedArgs)

\* C3, amended: every returned record satisfies every active filter
\* constraint, unless no catalog record satisfies them: then the list is the
\* one fallback record, which does not
C3_AllSatisfyFiltersOrFallback ==
  Served =>
    \/ \A k \in 1..Len(outcome.recommendations) :
         Satisfies(outcome.recommendations[k], ServedArgs)
    \/ /\ \A i \in 1..Len(assessments) : ~Satisfies(assessments[i], ServedArgs)
       /\ Len(outcome.recommendations) = 1
       /\ IsFallback(outcome.recommendations[1])

\* C3, witness: a call with an active filter that some catalog records fail
\* and others satisfy returned records, all satisfying it
C3_Filtered ==
  /\ Served
  /\ ~NoFilter(ServedArgs)
  /\ \E i \in 1..Len(assessments) : ~Satisfies(assessments[i], ServedArgs)
  /\ Len(outcome.recommendations) >= 1
  /\ \A k \in 1..Len(outcome.recommendations) :
       Satisfies(outcome.recommendations[k], ServedArgs)

\* C4: on a non-empty catalog with a filter that no catalog record satisfies,
\* get_recommendations returns exactly one record, a copy of the catalog's
\* first record with score 0, for every query and every top_k
C4_Fallback ==
  /\ Served
  /\ assessments # << >>
  /\ \A i \in 1..Len(assessments) : ~Satisfies(assessments[i], ServedArgs)
  => /\ Len(outcome.recommendations) = 1
     /\ IsFallback(outcome.recommendations[1])

\* C4, witness: a call with top_k of 2 or more on a catalog of 2 or more
\* records, none satisfying the filter, returned one record
C4_FallbackReturned ==
  /\ Served
  /\ Len(assessments) >= 2
  /\ ServedArgs.top_k >= 2
  /\ \A i \in 1..Len(assessments) : ~Satisfies(assessments[i], ServedArgs)
  /\ Len(outcome.recommendations) = 1

\* the query /v1/recommend reads from its payload
AssignmentQuery(data) ==
  IF data.job_description # Absent THEN data.job_description
  ELSE IF data.query # Absent THEN data.query
  ELSE ""

\* C5, as stated: get_recommendations, called with an empty or missing query,
\* is rejected before any vector computation and returns no record list
C5_EngineRejectsEmptyQuery ==
  request.op = "get_recommendations" /\ request.args.job_description \in { "", None } =>
    /\ outcome.kind = "raised"
    /\ ~outcome.scored

\* C5, amended: the two HTTP handlers reject an empty or missing query with
\* status 400 before they call get_recommendations, and give no record list;
\* get_recommendations itself returns a list for the empty string, and for
\* None raises only after the vector computation
C5_HandlersRejectEmptyQuery ==
  /\ ( /\ request.op = "recommend"
       /\ nlp_processor # None
       /\ request.data.json
       /\ request.data.job_description \in { Absent, None, "" } )
     => outcome = HttpOutcome(400, FALSE, << >>)
  /\ ( /\ request.op = "assignment_recommend"
       /\ nlp_processor # None
       /\ request.data.json
       /\ AssignmentQuery(request.data) \in { None, "" } )
     => outcome = HttpOutcome(400, FALSE, << >>)
  /\ request.op = "get_recommendations" /\ request.args.job_description = ""
     => /\ outcome.kind = "returned"
        /\ outcome.scored
        /\ Len(outcome.recommendations) >= 1
  /\ request.op = "get_recommendations" /\ request.args.job_description = None
     => /\ outcome.kind = "raised"
        /\ outcome.scored

\* C5, witness: /api/recommend, with the engine built, answered a payload
\* whose job_description is the empty string with 400
C5_EmptyQueryRejected ==
  /\ request.op = "recommend"
  /\ nlp_processor # None
  /\ request.data.json
  /\ request.data.job_description = ""
  /\ outcome.status = 400

\* C6: with no filter active, a non-empty catalog and a positive maximum
\* adjusted score, the first record returned has normalized score exactly 1
C6_TopScoreIsOne ==
  /\ Served
  /\ NoFilter(ServedArgs)
  /\ assessments # << >>
  /\ \E i \in 1..Len(assessments) :
       ScoreLess(Zero, AdjustedScore(i, ServedArgs.job_description))
  => /\ outcome.recommendations # << >>
     /\ outcome.recommendations[1].similarity_score.num =
          outcome.recommendations[1].similarity_score.den
     /\ outcome.recommendations[1].similarity.num =
          outcome.recommendations[1].similarity.den
     /\ ScoreLess(Zero, outcome.recommendations[1].similarity_score.den)

\* C6, witness: an unfiltered call with a positive maximum adjusted score
\* returned two or more records; the first is not the catalog's first, and the
\* second has another score than the first
C6_TopRanked ==
  /\ Served
  /\ NoFilter(ServedArgs)
  /\ \E i \in 1..Len(assessments) :
       ScoreLess(Zero, AdjustedScore(i, ServedArgs.job_description))
  /\ Len(outcome.recommendations) >= 2
  /\ CatalogIndex(outcome.recommendations[1]) # 1
  /\ outcome.recommendations[2].similarity_score.num #
       outcome.recommendations[2].similarity_score.den

\* C7: the same call made twice on one engine, with any calls in between,
\* gives both times the same ordered list with the same scores
C7_SameResultAgain ==
  first_call.again => first_call.second = first_call.result

\* C7, witness: a call that returned two or more records was made again
\* after another call
C7_CalledAgain ==
  /\ first_call.again
  /\ first_call.between
  /\ first_call.result.kind = "returned"
  /\ Len(first_call.result.recommendations) >= 2

\* C8: after any calls of get_recommendations, returning or raising, the
\* engine's catalog, vectorizer and vectors are as construction left them, and
\* no catalog record has a similarity_score or similarity key
C8_EngineUnchanged ==
  constructed.built =>
    /\ Engine = constructed.engine
    /\ \A i \in 1..Len(assessments) : DOMAIN assessments[i] \cap ScoreKeys = {}

\* C8, witness: a call returned records that carry the two score keys
C8_ScoresOnCopies ==
  /\ constructed.built
  /\ request.op = "get_recommendations"
  /\ outcome.kind = "returned"
  /\ Len(outcome.recommendations) >= 1
  /\ \A k \in 1..Len(outcome.recommendations) :
       ScoreKeys \subseteq DOMAIN outcome.recommendations[k]

\* C9: a call of get_recommendations that ran concurrently with others on
\* the shared engine gives the result that the same call gives run alone
C9_SameAsAlone ==
  \A t \in Threads :
    threads[t].pc = "done" =>
      threads[t].result =
        GetRecommendations(constructed.engine.assessments, constructed.engine.vectorizer,
                           constructed.engine.assessment_vectors, threads[t].args)

\* C9, witness: a thread has its list of two or more records while the
\* other thread, which started before the first finished, is inside its call
C9_Interleaved ==
  \E t, u \in Threads :
    /\ t # u
    /\ threads[t].pc = "done"
    /\ threads[t].result.kind = "returned"
    /\ Len(threads[t].result.recommendations) >= 2
    /\ threads[u].pc \in { "cosine", "boost", "rank" }
    /\ threads[u].args # threads[t].args

\* C10: the returned records are in descending order of adjusted score,
\* records of equal adjusted score in catalog order; a record that satisfies
\* the filters and is not returned ranks behind every returned one
C10_RankedByScoreThenCatalogOrder ==
  Served =>
    LET recs == outcome.recommendations
        job_description == ServedArgs.job_description
        Behind(i, j) ==
          \/ ScoreLess(AdjustedScore(j, job_description), AdjustedScore(i, job_description))
          \/ /\ AdjustedScore(j, job_description) = AdjustedScore(i, job_description)
             /\ i < j
    IN /\ \A p, q \in 1..Len(recs) :
            p < q => Behind(CatalogIndex(recs[p]), CatalogIndex(recs[q]))
       /\ \A p \in 1..Len(recs), j \in 1..Len(assessments) :
            /\ Satisfies(assessments[j], ServedArgs)
            /\ \A q \in 1..Len(recs) : CatalogIndex(recs[q]) # j
            => Behind(CatalogIndex(recs[p]), j)

\* C10, witness: a call returned three or more records, two of them with
\* equal adjusted score and two with different adjusted scores
C10_TieAndOrder ==
  /\ Served
  /\ Len(outcome.recommendations) >= 3
  /\ \E p, q \in 1..Len(outcome.recommendations) :
       /\ p < q
       /\ AdjustedScore(CatalogIndex(outcome.recommendations[p]), ServedArgs.job_description)
            = AdjustedScore(CatalogIndex(outcome.recommendations[q]),
                            ServedArgs.job_description)
  /\ \E p, q \in 1..Len(outcome.recommendations) :
       /\ p < q
       /\ AdjustedScore(CatalogIndex(outcome.recommendations[p]), ServedArgs.job_description)
            # AdjustedScore(CatalogIndex(outcome.recommendations[q]),
                            ServedArgs.job_description)

\* catalog record i ranks before catalog record j: a higher adjusted score,
\* or an equal one and an earlier catalog position
RanksBefore(i, j, job_description) ==
  \/ ScoreLess(AdjustedScore(j, job_description), AdjustedScore(i, job_description))
  \/ /\ AdjustedScore(j, job_description) = AdjustedScore(i, job_description)
     /\ i < j

\* the catalog positions of the records that satisfy the active filters
SatisfyingIndices(args) ==
  { i \in 1..Len(assessments) : Satisfies(assessments[i], args) }

\* the place of catalog record j among the records that satisfy the filters,
\* in ranking order, counted from 1
PlaceAmongSatisfying(j, args) ==
  1 + Cardinality({ i \in SatisfyingIndices(args) :
                      RanksBefore(i, j, args.job_description) })

Min(a, b) == IF a <= b THEN a ELSE b

\* the returned list is the first n records, in ranking order, of those that
\* satisfy the filters
IsFirstSatisfying(n, args) ==
  /\ Len(outcome.recommendations) = Min(n, Cardinality(SatisfyingIndices(args)))
  /\ \A p \in 1..Len(outcome.recommendations) :
       /\ CatalogIndex(outcome.recommendations[p]) \in SatisfyingIndices(args)
       /\ PlaceAmongSatisfying(CatalogIndex(outcome.recommendations[p]), args) = p

\* the returned scores do not increase along the list
ScoresNonIncreasing ==
  \A p, q \in 1..Len(outcome.recommendations) :
    p < q =>
      /\ outcome.recommendations[p].similarity_score.den =
           outcome.recommendations[q].similarity_score.den
      /\ ScoreLeq(outcome.recommendations[q].similarity_score.num,
                  outcome.recommendations[p].similarity_score.num)

\* C11, as stated: outside the fallback case the returned list is exactly the
\* first top_k filter-passing records of the score-sorted catalog, with
\* non-increasing scores
C11_FirstTopKSatisfying ==
  Served /\ SatisfyingIndices(ServedArgs) # {} =>
    /\ IsFirstSatisfying(Max(ServedArgs.top_k, 0), ServedArgs)
    /\ ScoresNonIncreasing

\* C11, amended: outside the fallback case the returned list is exactly the
\* first max(top_k, 1) filter-passing records of the score-sorted catalog,
\* with non-increasing scores
C11_FirstMaxTopKOneSatisfying ==
  Served /\ SatisfyingIndices(ServedArgs) # {} =>
    /\ IsFirstSatisfying(Max(ServedArgs.top_k, 1), ServedArgs)
    /\ ScoresNonIncreasing

\* C11, witness: a call with an active filter and top_k of 2 or more returned
\* top_k records and left out a record that satisfies the filter; a record
\* that fails the filter ranks before a returned one
C11_TruncatedAfterFilter ==
  /\ Served
  /\ ServedArgs.top_k >= 2
  /\ Cardinality(SatisfyingIndices(ServedArgs)) > ServedArgs.top_k
  /\ Len(outcome.recommendations) = ServedArgs.top_k
  /\ \E i \in 1..Len(assessments) :
       /\ ~Satisfies(assessments[i], ServedArgs)
       /\ RanksBefore(i, CatalogIndex(outcome.recommendations[1]),
                      ServedArgs.job_description)

\* the maximum adjusted score over all catalog records
MaxAdjustedScore(job_description) ==
  LET scores == { AdjustedScore(i, job_description) : i \in 1..Len(assessments) }
  IN CHOOSE s \in scores : \A r \in scores : ScoreLeq(r, s)

\* the normalized score has the value num / den
IsQuotient(score, num, den) ==
  \/ score.num = num /\ score.den = den
  \/ score.num = Zero /\ num = Zero

\* both scores of the returned record are the given one
HasScore(rec, score) == rec.similarity_score = score /\ rec.similarity = score

\* C12, as stated: every returned score is the record's adjusted score
\* divided by the maximum adjusted score over all catalog records, and 0 when
\* that maximum is zero
C12_ScoreIsAdjustedOverMax ==
  Served =>
    \A k \in 1..Len(outcome.recommendations) :
      LET rec == outcome.recommendations[k]
          max_score == MaxAdjustedScore(ServedArgs.job_description)
          adjusted == AdjustedScore(CatalogIndex(rec), ServedArgs.job_description)
      IN IF max_score = Zero
           THEN HasScore(rec, ZeroScore)
           ELSE /\ IsQuotient(rec.similarity_score, adjusted, max_score)
                /\ IsQuotient(rec.similarity, adjusted, max_score)

\* C12, amended: outside the fallback case every returned score is the
\* record's adjusted score divided by the maximum adjusted score over all
\* catalog records when that maximum is positive, and 0 when it is zero or
\* negative; the fallback record has score 0
C12_ScoreIsAdjustedOverPositiveMax ==
  Served =>
    \A k \in 1..Len(outcome.recommendations) :
      LET rec == outcome.recommendations[k]
          max_score == MaxAdjustedScore(ServedArgs.job_description)
          adjusted == AdjustedScore(CatalogIndex(rec), ServedArgs.job_description)
      IN IF SatisfyingIndices(ServedArgs) = {} \/ ~ScoreLess(Zero, max_score)
           THEN HasScore(rec, ZeroScore)
           ELSE HasScore(rec, [num |-> adjusted, den |-> max_score])

\* C12, witness: the record with the maximum adjusted score fails the active
\* filter, and a returned record has its positive adjusted score divided by
\* that maximum
C12_DividedByFilteredMax ==
  /\ Served
  /\ Len(outcome.recommendations) >= 1
  /\ ScoreLess(Zero, MaxAdjustedScore(ServedArgs.job_description))
  /\ \A i \in 1..Len(assessments) :
       AdjustedScore(i, ServedArgs.job_description)
         = MaxAdjustedScore(ServedArgs.job_description)
       => ~Satisfies(assessments[i], ServedArgs)
  /\ ScoreLess(Zero, outcome.recommendations[1].similarity_score.num)
  /\ outcome.recommendations[1].similarity_score.den
       = MaxAdjustedScore(ServedArgs.job_description)

-----------------------------------------------------------------------------
(* The ranking scenarios: catalogs built from the sample set and the Core    *)
(* Java record, the scenario queries, and the cosines of three sample        *)
(* records taken over their whole range                                      *)

PythonAssessment == SampleAssessments[5]

CustomerService == SampleAssessments[7]

ExcelSkills == SampleAssessments[8]

ScenarioCatalogs ==
  { << PythonAssessment, CustomerService >>,
    << CustomerService, PythonAssessment >>,
    SampleAssessments,
    << CoreJava >> \o SampleAssessments,
    SampleAssessments \o << CoreJava >> }

InitScenario ==
  /\ pc = "start"
  /\ catalog_file \in { [state |-> "valid", content |-> c] : c \in ScenarioCatalogs }
  /\ assessments = << >>
  /\ nlp_processor = None
  /\ vectorizer = [vocabulary |-> {}]
  /\ assessment_texts = << >>
  /\ processed_assessments = << >>
  /\ assessment_vectors = << >>
  /\ constructed = [built |-> FALSE]
  /\ request = NoRequest
  /\ outcome = NoOutcome
  /\ first_call = NoFirstCall
  /\ threads = [t \in Threads |-> Idle]

\* the arguments of the scenario calls: no filter, the default top_k
ScenarioArgs ==
  [ job_description : ScenarioQueries, top_k : { DefaultTopK }, test_type : { None },
    remote_available : { None }, adaptive_testing : { None } ]

\* the values a cosine is taken from: 0, 1 and the levels between
CosineChoices == { Zero, One } \cup { Hundredths(l) : l \in CosineLevels }

\* nlp_processor.get_recommendations(...) with the arguments of a scenario
ScenarioCall ==
  /\ pc = "serving"
  /\ request = NoRequest
  /\ nlp_processor # None
  /\ \E args \in ScenarioArgs :
       /\ request' = [op |-> "get_recommendations", args |-> args]
       /\ LET result ==
                GetRecommendations(assessments, vectorizer, assessment_vectors, args)
          IN /\ outcome' = [kind |-> result.kind, status |-> 0, scored |-> TRUE,
                            recommendations |-> result.recommendations]
             /\ EngineAfterCall(args, result)
  /\ UNCHANGED << pc, catalog_file, first_call, threads >>

\* get_recommendations from the boost loop on, for any cosines that
\* cosine_similarity may have given the three records; the other records
\* have cosine 0
RankWithCosines ==
  /\ pc = "serving"
  /\ request = NoRequest
  /\ nlp_processor # None
  /\ \E args \in ScenarioArgs, python, customer, excel \in CosineChoices :
       LET similarity_scores ==
             [ i \in 1..Len(assessments) |->
                 IF assessments[i] = PythonAssessment THEN python
                 ELSE IF assessments[i] = CustomerService THEN customer
                 ELSE IF assessments[i] = ExcelSkills THEN excel
                 ELSE Zero ]
           recommendations ==
             Rank(Similarities(assessments, similarity_scores, args.job_description),
                  assessments, args)
       IN /\ request' = [op |-> "rank", args |-> args,
                         similarity_scores |-> similarity_scores]
          /\ outcome' = [kind |-> "returned", status |-> 0, scored |-> TRUE,
                         recommendations |-> recommendations]
          /\ assessments' = AssessmentsAfterCall(assessments, recommendations)
  /\ UNCHANGED << pc, catalog_file, nlp_processor, vectorizer, assessment_texts,
                  processed_assessments, assessment_vectors, constructed, first_call,
                  threads >>

NextScenario ==
  \/ LoadAssessments
  \/ InitProcessor
  \/ ScenarioCall
  \/ RankWithCosines
  \/ Return

SpecScenario == InitScenario /\ [][NextScenario]_vars

\* a scenario call has returned its list
Ranked == request.op \in { "get_recommendations", "rank" } /\ outcome.kind = "returned"

\* the record is in the catalog
InCatalog(assessment) == \E i \in 1..Len(assessments) : assessments[i] = assessment

\* the record is in the returned list
IsReturned(assessment) ==
  \E k \in 1..Len(outcome.recommendations) :
    Stripped(outcome.recommendations[k]) = assessment

\* the place of a returned record in the list, counted from 1
PlaceOf(assessment) ==
  CHOOSE k \in 1..Len(outcome.recommendations) :
    Stripped(outcome.recommendations[k]) = assessment

\* Customer Service is returned, and before Python if Python is returned
CustomerServiceBeforePython ==
  /\ IsReturned(CustomerService)
  /\ IsReturned(PythonAssessment) => PlaceOf(CustomerService) < PlaceOf(PythonAssessment)

C15_NoEngineOnEmptyVocabulary ==
  /\ nlp_processor # None =>
       /\ constructed.built
       /\ assessments # << >>
       /\ vectorizer.vocabulary # {}
       /\ Len(assessment_vectors) = Len(assessments)
       /\ Len(processed_assessments) = Len(assessments)
  /\ pc = "serving" /\ Vocabulary(ProcessedAssessments(assessments)) = {} =>
       /\ nlp_processor = None
       /\ ~constructed.built
       /\ request.op # "get_recommendations"
       /\ request.op = "recommend" => outcome = HttpOutcome(500, FALSE, << >>)
       /\ request.op = "assignment_recommend" => outcome = HttpOutcome(503, FALSE, << >>)

\* C15, witness: after the constructor raised over a catalog of one record
\* without a term, /api/recommend answered a query with 500
C15_RequestWithoutEngine ==
  /\ pc = "serving"
  /\ Len(assessments) = 1
  /\ Vocabulary(ProcessedAssessments(assessments)) = {}
  /\ nlp_processor = None
  /\ request.op = "recommend"
  /\ request.data.json
  /\ request.data.job_description = "bank clerk"
  /\ outcome.status = 500

\* C16: once initialization has failed at startup, the engine is never
\* initialized again, and every request to /v1/recommend is answered with
\* 503, whatever its payload
C16_UnavailableForever ==
  [][ pc = "serving" /\ nlp_processor = None =>
        /\ nlp_processor' = None
        /\ pc' = "serving"
        /\ request'.op = "assignment_recommend" =>
             outcome' = HttpOutcome(503, FALSE, << >>) ]_vars

\* C16, witness: after a failed initialization, /v1/recommend answered a
\* payload that has a query with 503
C16_QueryAnswered503 ==
  /\ pc = "serving"
  /\ nlp_processor = None
  /\ request.op = "assignment_recommend"
  /\ request.data.json
  /\ request.data.job_description = "bank clerk"
  /\ outcome.status = 503

\* the payload field holds non-empty text
HasText(value) == value \notin { Absent, None, "" }

\* C17, as stated: a request to /v1/recommend whose payload has non-empty
\* text in job_description or in query is passed to the engine and is not
\* rejected with 400, whatever the other field holds
C17_EitherFieldAccepted ==
  /\ request.op = "assignment_recommend"
  /\ nlp_processor # None
  /\ request.data.json
  /\ HasText(request.data.job_description) \/ HasText(request.data.query)
  => /\ outcome.status # 400
     /\ outcome.scored

\* what load_assessments returned, as a parsed value
ReturnedList == [type |-> "list", value |-> assessments]

\* C18, as stated: the sample set for a file that is missing, unreadable or
\* no JSON, and the file's parsed content for every other file
C18_SampleOrParsedContent ==
  pc # "start" =>
    IF catalog_file.state \in { "missing", "invalid" }
    THEN assessments = SampleAssessments
    ELSE ReturnedList = json_load(catalog_file)

\* C18: load_assessments always returns; it returns the sample set of 10
\* records for a file that is missing, unreadable, no JSON, or whose parsed
\* value has no length, and the parsed list unchanged for every other file
C18_SampleOrSizedContent ==
  pc # "start" =>
    IF \/ catalog_file.state \in { "missing", "invalid" }
       \/ json_load(catalog_file).type # "list"
    THEN assessments = SampleAssessments /\ Len(assessments) = 10
    ELSE ReturnedList = json_load(catalog_file)

\* C18: a file holding a JSON number was loaded as the sample set
C18_ScalarFileLoaded ==
  /\ pc # "start"
  /\ catalog_file.state = "scalar"
  /\ assessments = SampleAssessments

\* the keywords that the loop of _compute_assessment_vectors appends to its
\* local processed_text, by the name of the assessment
RoleKeywords(name) ==
  LET name_lower == Lower(name)
  IN IF Contains(name_lower, "java")
       THEN " java_developer coding_java programming_java"
     ELSE IF Contains(name_lower, "python")
       THEN " python_developer coding_python programming_python"
     ELSE IF Contains(name_lower, "sales")
       THEN " sales_representative sales_professional"
     ELSE IF Contains(name_lower, "leadership") \/ Contains(name_lower, "management")
       THEN " leadership_skills manager_skills"
     ELSE IF /\ Contains(name_lower, "data")
             /\ Contains(name_lower, "science") \/ Contains(name_lower, "analysis")
       THEN " data_scientist data_analysis"
     ELSE ""

\* the local processed_text when the loop is done with the assessment
TaggedText(assessment) ==
  Preprocessed(CompositeText(assessment)) \o RoleKeywords(assessment.name)

\* C19, as stated: for every record whose name triggers a tag, the text given
\* to the vectorizer fit is the normalized composite text followed by the
\* tags
C19_TagsReachTheFit ==
  nlp_processor # None =>
    \A i \in 1..Len(assessments) :
      RoleKeywords(assessments[i].name) # "" =>
        processed_assessments[i] = TaggedText(assessments[i])

\* the roles of key_exact_matches that occur in the job description
RolesIn(job_description_lower) ==
  { k \in 1..Len(key_exact_matches) :
      Contains(job_description_lower, key_exact_matches[k].role) }

\* how many (role, term) pairs match: the role occurs in the job description
\* and the term in the assessment text
RoleTermMatches(job_description_lower, assessment_text) ==
  Cardinality(UNION { { << k, j >> : j \in { t \in 1..Len(key_exact_matches[k].match_terms) :
                                               Contains(assessment_text,
                                                        key_exact_matches[k].match_terms[t]) } } :
                      k \in RolesIn(job_description_lower) })

\* how many roles match: the role occurs in the job description and at least
\* one of its terms in the assessment text
RolePhraseMatches(job_description_lower, assessment_text) ==
  Cardinality({ k \in RolesIn(job_description_lower) :
                  ContainsAny(assessment_text, key_exact_matches[k].match_terms) })

\* the boost of the rules other than the role rule
BoostWithoutRoles(job_description, assessment) ==
  LET job_description_lower == Lower(job_description)
      assessment_text == AssessmentText(assessment)
  IN ScoreAdd(TermBoost(job_description_lower, assessment_text),
     ScoreAdd(CategoryBoost(job_categories(job_description_lower), assessment_text, 1),
     ScoreAdd(DirectCategoryBoost(job_categories(job_description_lower), assessment_text),
              DomainPenalty(job_description_lower, Lower(assessment.name)))))

\* the records of the scenario catalogs
ScenarioRecords ==
  { SampleAssessments[i] : i \in 1..Len(SampleAssessments) } \cup { CoreJava }

\* the role matches and the other boosts, by scenario query and assessment
RoleMatchTable ==
  [ job_description \in ScenarioQueries |->
      [ fields \in { TextFields(a) : a \in ScenarioRecords } |->
          [terms |-> RoleTermMatches(Lower(job_description), AssessmentText(fields)),
           phrases |-> RolePhraseMatches(Lower(job_description), AssessmentText(fields)),
           rest |-> BoostWithoutRoles(job_description, fields)] ] ]

RoleMatchOf(job_description, assessment) ==
  RoleMatchTable[job_description][TextFields(assessment)]

\* the returned record's adjusted score is its cosine, the boosts of the
\* other rules and the given role boost
AdjustedWithRoleBoost(rec, role_boost) ==
  LET i == CatalogIndex(rec)
  IN rec.similarity_score.num
       = ScoreAdd(request.similarity_scores[i],
                  ScoreAdd(RoleMatchOf(request.args.job_description, assessments[i]).rest,
                           role_boost))

\* C20, as stated: the role boost in the score of a returned record is 0.5
\* times the number of role phrases of the query that have one of their
\* substrings in the record's text
C20_HalfPerMatchingRole ==
  Ranked /\ request.op = "rank" =>
    \A k \in 1..Len(outcome.recommendations) :
      LET rec == outcome.recommendations[k]
          m == RoleMatchOf(request.args.job_description, Stripped(rec))
      IN rec.similarity_score # ZeroScore =>
           AdjustedWithRoleBoost(rec, Hundredths(50 * m.phrases))

\* C20, amended: the role boost in the score of a returned record is 0.5
\* times the number of associated substrings found in the record's text,
\* counted over every role phrase that occurs in the lower-cased query
C20_HalfPerMatchingTerm ==
  Ranked /\ request.op = "rank" =>
    \A k \in 1..Len(outcome.recommendations) :
      LET rec == outcome.recommendations[k]
          m == RoleMatchOf(request.args.job_description, Stripped(rec))
      IN rec.similarity_score # ZeroScore =>
           AdjustedWithRoleBoost(rec, Hundredths(50 * m.terms))

\* C20, witness: a returned record with a positive score matches more
\* substrings than role phrases
C20_TwoTermsOfOneRole ==
  /\ Ranked
  /\ request.op = "rank"
  /\ \E k \in 1..Len(outcome.recommendations) :
       LET rec == outcome.recommendations[k]
           m == RoleMatchOf(request.args.job_description, Stripped(rec))
       IN /\ rec.similarity_score # ZeroScore
          /\ m.phrases = 1
          /\ m.terms = 2

\* the query has a banking or administrative signal term
HasSignalTerm(job_description_lower) ==
  \E i \in 1..5 :
    Contains(job_description_lower,
             << "bank", "administrative", "admin", "assistant", "clerk" >>[i])

\* the name is that of a programming assessment
IsProgrammingName(name) ==
  \E i \in 1..5 :
    Contains(name, << "python", "java", "coding", "programming", "developer" >>[i])

\* the boost of the rules that come before the penalty
BoostBeforePenalty(job_description, assessment) ==
  LET job_description_lower == Lower(job_description)
      assessment_text == AssessmentText(assessment)
  IN ScoreAdd(TermBoost(job_description_lower, assessment_text),
     ScoreAdd(CategoryBoost(job_categories(job_description_lower), assessment_text, 1),
     ScoreAdd(DirectCategoryBoost(job_categories(job_description_lower), assessment_text),
              RoleBoost(job_description_lower, assessment_text, 1))))

\* whether the penalty applies, and the boost before it, by scenario query
\* and assessment
PenaltyTable ==
  [ job_description \in ScenarioQueries |->
      [ fields \in { TextFields(a) : a \in ScenarioRecords } |->
          [penalized |-> /\ HasSignalTerm(Lower(job_description))
                         /\ IsProgrammingName(Lower(fields.name)),
           before |-> BoostBeforePenalty(job_description, fields)] ] ]

PenaltyOf(job_description, assessment) ==
  PenaltyTable[job_description][TextFields(assessment)]

\* similarities[i][1] of the call that was ranked: cosine plus boost
RankedScore(i) ==
  ScoreAdd(request.similarity_scores[i],
           BoostOf(request.args.job_description, assessments[i]))

IsToken(s, i, j) ==
  /\ i <= j
  /\ \A k \in i..j : ~IsSpace(CharAt(s, k))
  /\ i = 1 \/ IsSpace(CharAt(s, i - 1))
  /\ j = Len(s) \/ IsSpace(CharAt(s, j + 1))

\* the distinct tokens of the query that occur in the text: those longer
\* than 3 characters, and the others
TokenMatches(job_description_lower, assessment_text) ==
  LET tokens == { SubSeq(job_description_lower, i, j) :
                    << i, j >> \in { p \in (1..Len(job_description_lower))
                                            \X (1..Len(job_description_lower)) :
                                       IsToken(job_description_lower, p[1], p[2]) } }
      found == { t \in tokens : Contains(assessment_text, t) }
  IN [long |-> Cardinality({ t \in found : Len(t) > 3 }),
      short |-> Cardinality({ t \in found : Len(t) <= 3 })]

\* the boost of the rules other than the term rule
BoostWithoutTerms(job_description, assessment) ==
  LET job_description_lower == Lower(job_description)
      assessment_text == AssessmentText(assessment)
  IN ScoreAdd(CategoryBoost(job_categories(job_description_lower), assessment_text, 1),
     ScoreAdd(DirectCategoryBoost(job_categories(job_description_lower), assessment_text),
     ScoreAdd(RoleBoost(job_description_lower, assessment_text, 1),
              DomainPenalty(job_description_lower, Lower(assessment.name)))))

\* the token matches and the other boosts, by scenario query and assessment
TermMatchTable ==
  [ job_description \in ScenarioQueries |->
      [ fields \in { TextFields(a) : a \in ScenarioRecords } |->
          [matches |-> TokenMatches(Lower(job_description), AssessmentText(fields)),
           rest |-> BoostWithoutTerms(job_description, fields)] ] ]

TermMatchOf(job_description, assessment) ==
  TermMatchTable[job_description][TextFields(assessment)]

\* C22: the adjusted score of a returned record is its cosine, the boosts of
\* the other rules, and 0.02 for each distinct whitespace-separated token of
\* the lower-cased query that is longer than 3 characters and occurs in the
\* record's lower-cased "name description skills" text; shorter tokens add
\* nothing
C22_TwoHundredthsPerLongToken ==
  Ranked /\ request.op = "rank" =>
    \A k \in 1..Len(outcome.recommendations) :
      LET rec == outcome.recommendations[k]
          m == TermMatchOf(request.args.job_description, Stripped(rec))
      IN rec.similarity_score # ZeroScore =>
           rec.similarity_score.num
             = ScoreAdd(request.similarity_scores[CatalogIndex(rec)],
                        ScoreAdd(m.rest, Hundredths(2 * m.matches.long)))

\* C22, witness: one returned record with a positive score has a long token
\* of the query in its text, and another has short tokens only
C22_LongAndShortTokenFound ==
  /\ Ranked
  /\ request.op = "rank"
  /\ \E k, l \in 1..Len(outcome.recommendations) :
       LET long == outcome.recommendations[k]
           short == outcome.recommendations[l]
       IN /\ long.similarity_score # ZeroScore
          /\ TermMatchOf(request.args.job_description, Stripped(long)).matches.long >= 1
          /\ short.similarity_score # ZeroScore
          /\ TermMatchOf(request.args.job_description, Stripped(short)).matches.long = 0
          /\ TermMatchOf(request.args.job_description, Stripped(short)).matches.short >= 1

-----------------------------------------------------------------------------
(* _preprocess_text on its own: it is applied to a text, and then to its     *)
(* own result                                                                *)

\* the pieces the texts are made of
Pieces == << "Front", "end", " ", "-", "_", "X9", "Data  science " >>

MaxPieces == 3

RECURSIVE TextsOf(_)
\* the texts of exactly n pieces
TextsOf(n) ==
  IF n = 0 THEN { "" }
  ELSE { t \o Pieces[k] : t \in TextsOf(n - 1), k \in 1..Len(Pieces) }

Texts == UNION { TextsOf(n) : n \in 0..MaxPieces } \cup { None }

InitNormalizer ==
  /\ pc = "normalizer"
  /\ catalog_file = [state |-> "missing", content |-> << >>]
  /\ assessments = << >>
  /\ nlp_processor = None
  /\ vectorizer = [vocabulary |-> {}]
  /\ assessment_texts = << >>
  /\ processed_assessments = << >>
  /\ assessment_vectors = << >>
  /\ constructed = [built |-> FALSE]
  /\ request = NoRequest
  /\ outcome = NoOutcome
  /\ first_call = NoFirstCall
  /\ threads = [t \in Threads |-> Idle]

\* self._preprocess_text(text)
PreprocessText ==
  /\ pc = "normalizer"
  /\ request = NoRequest
  /\ \E text \in Texts :
       /\ request' = [op |-> "_preprocess_text", text |-> text, pass |-> 1]
       /\ outcome' = [kind |-> "returned", text |-> _preprocess_text(text),
                      previous |-> None]
  /\ UNCHANGED << pc, catalog_file, assessments, nlp_processor, vectorizer,
                  assessment_texts, processed_assessments, assessment_vectors,
                  constructed, first_call, threads >>

\* self._preprocess_text(result), for the result of the first call
PreprocessAgain ==
  /\ pc = "normalizer"
  /\ request.op = "_preprocess_text"
  /\ request.pass = 1
  /\ request' = [request EXCEPT !.pass = 2]
  /\ outcome' = [kind |-> "returned", text |-> _preprocess_text(outcome.text),
                 previous |-> outcome.text]
  /\ UNCHANGED << pc, catalog_file, assessments, nlp_processor, vectorizer,
                  assessment_texts, processed_assessments, assessment_vectors,
                  constructed, first_call, threads >>

NextNormalizer == PreprocessText \/ PreprocessAgain

SpecNormalizer == InitNormalizer /\ [][NextNormalizer]_vars

\* the first call of _preprocess_text has returned
Preprocessed1 == request.op = "_preprocess_text" /\ request.pass = 1

\* the text that was given to the first call, as a string
GivenText == IF request.text = None THEN "" ELSE request.text

\* the characters of the text that satisfy Keep, in order
Only(text, Keep(_)) ==
  LET F(i) == IF Keep(CharAt(text, i)) THEN CharAt(text, i) ELSE ""
  IN Concat(F, 1, Len(text))

IsAlnum(c) == IsIn(c, LowerCase) \/ IsIn(c, UpperCase) \/ IsIn(c, Digits)

\* the output with its joined phrases split again
RECURSIVE Unjoined(_, _)
Unjoined(text, k) ==
  IF k > Len(phrases_to_join) THEN text
  ELSE Unjoined(Replace(text, Replace(phrases_to_join[k], " ", "_"), phrases_to_join[k]),
                k + 1)

\* C23, as stated: every character of the input that is neither alphanumeric
\* nor whitespace is replaced by a space, and the output has no such
\* character but the underscores of joined phrases
C23_OnlyAlnumAndJoinedUnderscores ==
  Preprocessed1 =>
    /\ \A i \in 1..Len(Unjoined(outcome.text, 1)) :
         LET c == CharAt(Unjoined(outcome.text, 1), i)
         IN IsAlnum(c) \/ IsSpace(c)
    /\ Only(outcome.text, IsAlnum) = Only(Lower(GivenText), IsAlnum)

\* C23, amended: every character of the input that is neither alphanumeric,
\* an underscore nor whitespace is replaced by a space: the output consists
\* of alphanumeric characters, spaces and underscores, and its alphanumeric
\* characters are those of the lower-cased input; its underscores are those
\* of the input and those of joined phrases
C23_OnlyWordCharsAndSpaces ==
  Preprocessed1 =>
    /\ \A i \in 1..Len(outcome.text) :
         LET c == CharAt(outcome.text, i)
         IN IsAlnum(c) \/ c = "_" \/ c = " "
    /\ Only(outcome.text, IsAlnum) = Only(Lower(GivenText), IsAlnum)
    /\ Len(Only(Unjoined(outcome.text, 1), LAMBDA c : c = "_"))
         <= Len(Only(GivenText, LAMBDA c : c = "_"))

\* C23, witness: an input with an underscore and a hyphen, whose output has
\* the underscore and no hyphen
C23_UnderscoreKept ==
  /\ Preprocessed1
  /\ Contains(GivenText, "_")
  /\ Contains(GivenText, "-")
  /\ Contains(outcome.text, "_")
  /\ ~Contains(outcome.text, "-")


\* C24: _preprocess_text applied to its own result returns that result, and
\* the result has no occurrence of a phrase of phrases_to_join with its
\* space left in
C24_Idempotent ==
  /\ request.op = "_preprocess_text" /\ request.pass = 2 =>
       outcome.text = outcome.previous
  /\ request.op = "_preprocess_text" =>
       \A k \in 1..Len(phrases_to_join) : ~Contains(outcome.text, phrases_to_join[k])

\* C24, witness: the second call has returned the result of the first, in
\* which a phrase written with a hyphen was joined
C24_JoinedTwice ==
  /\ request.op = "_preprocess_text"
  /\ request.pass = 2
  /\ Contains(GivenText, "Front-end")
  /\ Contains(outcome.previous, "front_end")
  /\ outcome.text = outcome.previous


\* the statuses /v1/recommend answers with when no list comes back empty
AssignmentStatuses == { 200, 400, 500, 503 }

\* C25: with an engine, get_recommendations returns a non-empty list for
\* every non-empty query; /v1/recommend never answers 404, only 200 with 1
\* to 10 assessments, 400, 500 or 503
C25_NoResultsUnreachable ==
  /\ /\ request.op = "get_recommendations"
     /\ outcome.kind = "returned"
     /\ nlp_processor # None
     /\ request.args.job_description # ""
     => outcome.recommendations # << >>
  /\ request.op = "assignment_recommend" =>
       /\ outcome.status \in AssignmentStatuses
       /\ outcome.status = 200 =>
            /\ Len(outcome.recommendations) >= 1
            /\ Len(outcome.recommendations) <= AssignmentTopK

\* C25, witness: /v1/recommend answered a non-empty query with the 10
\* records of the catalog
C25_TenAssessments ==
  /\ request.op = "assignment_recommend"
  /\ nlp_processor # None
  /\ request.data.json
  /\ HasText(AssignmentQuery(request.data))
  /\ outcome.status = 200
  /\ Len(outcome.recommendations) = 10

=============================================================================
